---------------------------- MODULE Spec2Model ----------------------------
(***************************************************************************)
(* The comparison-series controller of                                     *)
(* frontend/src/features/comparisonSeries/ComparisonSeries.tsx: the React  *)
(* component state (step, dialogOpen, refreshLeft, alternatives,           *)
(* comparisonsMade), the effect that fetches the alternatives, the         *)
(* submission handler afterSubmitCallback and closeDialog.                 *)
(*                                                                         *)
(* A uid is a string, modelled as a sequence of characters, so that the    *)
(* history key uidA + '/' + uidB is a real concatenation and reading a key *)
(* back is a real split.                                                   *)
(***************************************************************************)
EXTENDS Integers, Sequences, FiniteSets, TLC

\* ------------------------------------------------------------------ bounds
\* the configured series length ranges over 0..MaxLength
MaxLength == 2
\* at most MaxSubmits submissions are delivered in one series
MaxSubmits == 3
\* at most MaxFetches runs of the getAlternatives effect start a fetch
MaxFetches == 2

\* --------------------------------------------------------------- constants
MIN_LENGTH == 2

\* ------------------------------------------------------------------- uids
A == <<"A">>
B == <<"B">>
C == <<"C">>
D == <<"D">>
\* the '' sentinel of afterSubmitCallback
EmptyUid == <<>>

Entity(u) == [uid |-> u]

\* what a getAlternatives promise can resolve to
PoolChoices ==
  { <<>>,
    <<Entity(A), Entity(B)>>,
    <<Entity(B), Entity(C), Entity(D)>> }

\* the `dialogs` prop: undefined, or an object keyed by step number
DialogsChoices ==
  { [defined |-> FALSE, keys |-> {}],
    [defined |-> TRUE, keys |-> {0, 2, 3}],
    [defined |-> TRUE, keys |-> {1, 3}] }

\* the pair the Comparison widget shows when the series starts
InitialPair == <<A, B>>
\* a pair the user may select by hand in the Comparison widget
FreePairs == { <<B, A>> }

VARIABLES
  length,          \* prop
  dialogs,         \* prop
  getAlternatives, \* prop: 0 is undefined, k > 0 is the k-th function passed
  step, dialogOpen, refreshLeft, alternatives, comparisonsMade, \* useState
  mounted,         \* the component is mounted
  pending,         \* fetches awaiting their promise
  poolFrom,        \* the fetch whose result setAlternatives stored last
  submissions,     \* calls of afterSubmitCallback so far
  ret,             \* what the last afterSubmitCallback returned
  sampled,         \* the last afterSubmitCallback called selectRandomEntity
  raised,          \* selectRandomEntity threw its empty-pool error
  fetches,         \* fetches started so far
  submitted,       \* the pair the last afterSubmitCallback was called with
  shown,           \* the pair the Comparison widget displays
  followsDisplay,  \* every submission so far was the displayed pair
  render,          \* the state values the closures of the last render hold
  alwaysFresh      \* every submission so far drew from a pool that held an
                   \* entity new to the kept one

vars ==
  << length, dialogs, getAlternatives, step, dialogOpen, refreshLeft,
     alternatives, comparisonsMade, mounted, pending, poolFrom, submissions,
     ret, sampled, raised, fetches, submitted, shown, followsDisplay,
     render, alwaysFresh >>

props == << length, dialogs >>
observed ==
  << submissions, ret, sampled, raised, submitted, shown, followsDisplay,
     alwaysFresh >>

\* ------------------------------------------------------- src/utils/entity
Range(s) == { s[i] : i \in 1..Len(s) }

\* Array.prototype.includes
Includes(arr, x) == \E i \in 1..Len(arr) : arr[i] = x

\* the two uids of a history key, read back at its first '/'
SlashAt(key) ==
  CHOOSE i \in 1..Len(key) :
    key[i] = "/" /\ \A j \in 1..(i - 1) : key[j] # "/"

Split(key) ==
  << SubSeq(key, 1, SlashAt(key) - 1),
     SubSeq(key, SlashAt(key) + 1, Len(key)) >>

\* for every pair of the history that holds uid, the other member
RECURSIVE alreadyComparedWith(_, _)
alreadyComparedWith(uid, comparisons) ==
  IF comparisons = <<>> THEN <<>>
  ELSE LET pair == Split(Head(comparisons))
           rest == alreadyComparedWith(uid, Tail(comparisons))
       IN IF pair[1] = uid THEN <<pair[2]>> \o rest
          ELSE IF pair[2] = uid THEN <<pair[1]>> \o rest
          ELSE rest

\* the entities a draw can return: one of those not excluded, or one of the
\* whole pool when all are excluded; none (the empty-pool error) on an empty
\* pool
selectRandomEntity(entities, exclude) ==
  LET filtered == SelectSeq(entities, LAMBDA e : ~Includes(exclude, e.uid))
  IN IF Len(filtered) > 0 THEN Range(filtered) ELSE Range(entities)

\* ------------------------------------------- src/features/comparisons/Comparison
\* the pair shown after a submission of `pair` answered by `result`: the side
\* named by refreshLeft takes the returned uid, unless it is the '' sentinel
Displayed(pair, result) ==
  IF result.uid = EmptyUid THEN pair
  ELSE IF result.refreshLeft THEN << result.uid, pair[2] >>
  ELSE << pair[1], result.uid >>

\* ---------------------------------------------- what a history records
AllUids == {A, B, C, D}

\* key is a followed by '/' followed by b, character by character
IsKeyOf(key, a, b) ==
  /\ Len(key) = Len(a) + 1 + Len(b)
  /\ \A i \in 1..Len(a) : key[i] = a[i]
  /\ key[Len(a) + 1] = "/"
  /\ \A j \in 1..Len(b) : key[Len(a) + 1 + j] = b[j]

\* the uids recorded in a pair with u, on either side
Partners(made, u) ==
  { v \in AllUids :
      \E i \in 1..Len(made) :
        IsKeyOf(made[i], u, v) \/ IsKeyOf(made[i], v, u) }

PoolUids(alts) == { alts[i].uid : i \in 1..Len(alts) }

\* the pool uids that are neither kept nor a partner of kept in the history
Eligible(alts, made, kept) == PoolUids(alts) \ (Partners(made, kept) \cup {kept})

\* ------------------------------------------------------- ComparisonSeries.tsx
\* mutant: the comparison is off by one
ManagedSeries_OffByOne(len) == len >= MIN_LENGTH - 1

\* length >= MIN_LENGTH: the Comparison is given afterSubmitCallback
ManagedSeries(len) == len >= MIN_LENGTH

\* dialogs && step in dialogs
DialogConfigured(dlgs, s) == dlgs.defined /\ s \in dlgs.keys

\* mutant: the increment is lost
NewStep_Stays(s) == s

NewStep(s) == s + 1

\* mutant: setStep(newStep) without the step < length guard
StepAfterSubmit_Unguarded(s, len) == NewStep(s)

\* mutant: an overrun submission starts the series again
StepAfterSubmit_Restarts(s, len) == IF s < len THEN NewStep(s) ELSE 0

\* mutant: the guard is off by one
StepAfterSubmit_StopsEarly(s, len) == IF s + 1 < len THEN NewStep(s) ELSE s

StepAfterSubmit(s, len) == IF s < len THEN NewStep(s) ELSE s

\* mutant: the key is built in the other order
PairKey_Reversed(uidA, uidB) == uidB \o <<"/">> \o uidA

PairKey(uidA, uidB) == uidA \o <<"/">> \o uidB

NewComparisons(made, uidA, uidB) == made \o << PairKey(uidA, uidB) >>

KeptUid(rl, uidA, uidB) == IF rl THEN uidB ELSE uidA

\* mutant: only the kept entity is excluded, not its partners
Exclude_KeptOnly(keptUid, newComparisons) == << keptUid >>

\* mutant: the partners are looked up in comparisonsMade, the history without
\* the pair just submitted
Exclude_StaleHistory(keptUid, newComparisons) ==
  alreadyComparedWith(keptUid,
                      SubSeq(newComparisons, 1, Len(newComparisons) - 1))
    \o << keptUid >>

\* mutant: the kept entity itself is not excluded
Exclude_PartnersOnly(keptUid, newComparisons) ==
  alreadyComparedWith(keptUid, newComparisons)

Exclude(keptUid, newComparisons) ==
  alreadyComparedWith(keptUid, newComparisons) \o << keptUid >>

\* mutant: the draw is not guarded by the pool's length
SamplesReplacement_Always(alts) == TRUE

\* mutant: the test of the pool's length is inverted
SamplesReplacement_Inverted(alts) == Len(alts) = 0

\* alternatives.length > 0
SamplesReplacement(alts) == Len(alts) > 0

\* mutant: the result is built after the toggle
NextStep_AfterToggle(uid, rl) == [uid |-> uid, refreshLeft |-> ~rl]

NextStep(uid, rl) == [uid |-> uid, refreshLeft |-> rl]

\* mutant: the side is set, not toggled
RefreshLeftAfterSubmit_Sets(rl) == TRUE

RefreshLeftAfterSubmit(rl) == ~rl

\* mutant: the dialog of the step being left is looked up
DialogOpenAfterSubmit_CurrentStep(open, dlgs, newStep) ==
  IF DialogConfigured(dlgs, newStep - 1) THEN TRUE ELSE open

DialogOpenAfterSubmit(open, dlgs, newStep) ==
  IF DialogConfigured(dlgs, newStep) THEN TRUE ELSE open

\* mutant: setAlternatives(alts) whatever its length
AlternativesAfterFetch_Unguarded(current, alts) == alts

\* if (alts.length > 0) setAlternatives(alts)
AlternativesAfterFetch(current, alts) ==
  IF Len(alts) > 0 THEN alts ELSE current

\* mutant: the handler is memoized without comparisonsMade among its
\* dependencies and keeps the history of the first render
Rendered_StaleHistory(s, rl, made, alts) ==
  [step |-> s, refreshLeft |-> rl, comparisonsMade |-> <<>>,
   alternatives |-> alts]

\* the useState values a render binds, which afterSubmitCallback closes over
Rendered(s, rl, made, alts) ==
  [step |-> s, refreshLeft |-> rl, comparisonsMade |-> made,
   alternatives |-> alts]

\* every event is processed to completion and the component rendered again
\* before the next one
Rerender ==
  render' = Rendered(step', refreshLeft', comparisonsMade', alternatives')

\* mutant: the dialog starts closed
InitialDialogOpen_Closed == FALSE

\* useState(true)
InitialDialogOpen == TRUE

Init ==
  /\ length \in 0..MaxLength
  /\ dialogs \in DialogsChoices
  /\ getAlternatives \in {0, 1}
  /\ step = 0
  /\ dialogOpen = InitialDialogOpen
  /\ refreshLeft = FALSE
  /\ alternatives = <<>>
  /\ comparisonsMade = <<>>
  /\ mounted = TRUE
  /\ fetches = getAlternatives
  /\ pending = 1..getAlternatives
  /\ poolFrom = 0
  /\ submissions = 0
  /\ ret = NextStep(EmptyUid, FALSE)
  /\ sampled = FALSE
  /\ raised = FALSE
  /\ submitted = InitialPair
  /\ shown = InitialPair
  /\ followsDisplay = TRUE
  /\ alwaysFresh = TRUE
  /\ render = Rendered(step, refreshLeft, comparisonsMade, alternatives)

\* lines 79-94 once the replacement uid is known
Returns(pair, uid, drew) ==
  /\ ret' = NextStep(uid, render.refreshLeft)
  /\ refreshLeft' = RefreshLeftAfterSubmit(render.refreshLeft)
  /\ dialogOpen' =
       DialogOpenAfterSubmit(dialogOpen, dialogs, NewStep(render.step))
  /\ sampled' = drew
  /\ shown' = Displayed(pair, NextStep(uid, render.refreshLeft))
  /\ UNCHANGED raised

\* selectRandomEntity threw: the handler ends at line 81, after setStep and
\* setComparisonsMade
Throws(pair) ==
  /\ raised' = TRUE
  /\ sampled' = TRUE
  /\ shown' = pair
  /\ UNCHANGED << ret, refreshLeft, dialogOpen >>

afterSubmitCallback(uidA, uidB) ==
  /\ mounted
  /\ ManagedSeries(length)
  /\ submissions < MaxSubmits
  /\ LET newComparisons ==
           NewComparisons(render.comparisonsMade, uidA, uidB)
         keptUid == KeptUid(render.refreshLeft, uidA, uidB)
         candidates == selectRandomEntity(render.alternatives,
                                          Exclude(keptUid, newComparisons))
     IN /\ step' = StepAfterSubmit(render.step, length)
        /\ comparisonsMade' = newComparisons
        /\ submissions' = submissions + 1
        /\ submitted' = << uidA, uidB >>
        /\ followsDisplay' = (followsDisplay /\ << uidA, uidB >> = shown)
        /\ alwaysFresh' =
             (/\ alwaysFresh
              /\ Eligible(alternatives,
                          comparisonsMade \o << uidA \o <<"/">> \o uidB >>,
                          IF refreshLeft THEN uidB ELSE uidA) # {})
        /\ IF SamplesReplacement(render.alternatives)
           THEN IF candidates = {}
                THEN Throws(<< uidA, uidB >>)
                ELSE \E e \in candidates :
                       Returns(<< uidA, uidB >>, e.uid, TRUE)
           ELSE Returns(<< uidA, uidB >>, EmptyUid, FALSE)
  /\ UNCHANGED << props, getAlternatives, alternatives, mounted, pending,
                  poolFrom, fetches >>
  /\ Rerender

Submit == \E pair \in {shown} \cup FreePairs :
            afterSubmitCallback(pair[1], pair[2])

\* mutant: the dialog is toggled, not closed
DialogOpenAfterClose_Toggles(open) == ~open

\* setDialogOpen(false)
DialogOpenAfterClose(open) == FALSE

\* the onClose of the DialogBox, which is rendered when the series is managed
\* and a dialog is configured for the step
closeDialog ==
  /\ mounted
  /\ ManagedSeries(length)
  /\ DialogConfigured(dialogs, step)
  /\ dialogOpen' = DialogOpenAfterClose(dialogOpen)
  /\ UNCHANGED << props, getAlternatives, step, refreshLeft, alternatives,
                  comparisonsMade, mounted, pending, poolFrom, fetches,
                  observed >>
  /\ Rerender

\* the parent passes another getAlternatives (a new function, or none): the
\* effect runs again and, given a function, starts a fetch
SetGetAlternatives(g) ==
  /\ mounted
  /\ g # getAlternatives
  /\ g <= MaxFetches
  /\ getAlternatives' = g
  /\ fetches' = IF g > 0 THEN g ELSE fetches
  /\ pending' = IF g > 0 THEN pending \cup {g} ELSE pending
  /\ UNCHANGED << props, step, dialogOpen, refreshLeft, alternatives,
                  comparisonsMade, mounted, poolFrom, observed >>
  /\ Rerender

ChangeGetAlternatives == \E g \in {0, fetches + 1} : SetGetAlternatives(g)

\* a fetch's promise resolves to alts; React drops the state update of an
\* unmounted component
ResolveFetch(f, alts) ==
  /\ f \in pending
  /\ pending' = pending \ {f}
  /\ alternatives' =
       IF mounted THEN AlternativesAfterFetch(alternatives, alts)
       ELSE alternatives
  /\ poolFrom' = IF mounted /\ Len(alts) > 0 THEN f ELSE poolFrom
  /\ UNCHANGED << props, getAlternatives, step, dialogOpen, refreshLeft,
                  comparisonsMade, mounted, fetches, observed >>
  /\ Rerender

Resolve == \E f \in pending, alts \in PoolChoices : ResolveFetch(f, alts)

\* a fetch's promise rejects: getAlternativesAsync ends at its await
RejectFetch(f) ==
  /\ f \in pending
  /\ pending' = pending \ {f}
  /\ UNCHANGED << props, getAlternatives, step, dialogOpen, refreshLeft,
                  alternatives, comparisonsMade, mounted, poolFrom, fetches,
                  observed >>
  /\ Rerender

Reject == \E f \in pending : RejectFetch(f)

Unmount ==
  /\ mounted
  /\ mounted' = FALSE
  /\ UNCHANGED << props, getAlternatives, step, dialogOpen, refreshLeft,
                  alternatives, comparisonsMade, pending, poolFrom, fetches,
                  observed >>
  /\ Rerender

Next ==
  \/ Submit
  \/ closeDialog
  \/ ChangeGetAlternatives
  \/ Resolve
  \/ Reject
  \/ Unmount

Spec == Init /\ [][Next]_vars

\* ------------------------------------------------------------ properties
\* the entity of `pair` on the side that `result` does not refresh
KeptSide(pair, result) == IF result.refreshLeft THEN pair[2] ELSE pair[1]

\* the step is a call of afterSubmitCallback
SubmitStep == submissions' = submissions + 1

\* C1: in every reachable state, whatever Submit and CloseDialog events were
\* delivered (overrun submissions included), 0 <= step <= length.
C1_StepWithinLength == 0 <= step /\ step <= length

\* an overrun submission was processed: more submissions than length
C1_Witness ==
  /\ ManagedSeries(length)
  /\ submissions > length
  /\ step = length
  /\ ~dialogOpen

\* C2: refreshLeft starts false and every processed Submit negates it, so
\* after n submissions refreshLeft = (n is odd); no other event changes it.
C2_RefreshLeftAlternates ==
  /\ [](refreshLeft = (submissions % 2 = 1))
  /\ [][refreshLeft' # refreshLeft => SubmitStep]_vars

\* three submissions, the last an overrun, made while the pool was empty
C2_Witness ==
  /\ submissions = 3
  /\ refreshLeft
  /\ step = length
  /\ alternatives = <<>>

\* C3: comparisonsMade is append-only: every Submit(uidA, uidB) appends
\* exactly the key uidA + '/' + uidB at the end and leaves the earlier
\* entries unchanged, no other event modifies it, and its length is the
\* number of submissions processed so far.
C3_HistoryAppendOnly ==
  /\ [](Len(comparisonsMade) = submissions)
  /\ [][/\ SubSeq(comparisonsMade', 1, Len(comparisonsMade)) = comparisonsMade
        /\ comparisonsMade' # comparisonsMade => SubmitStep
        /\ SubmitStep =>
             /\ Len(comparisonsMade') = Len(comparisonsMade) + 1
             /\ IsKeyOf(comparisonsMade'[Len(comparisonsMade')],
                        submitted'[1], submitted'[2])]_vars

\* a second, different key was appended behind the first
C3_Witness ==
  /\ Len(comparisonsMade) >= 2
  /\ comparisonsMade[1] = <<"A", "/", "B">>
  /\ comparisonsMade[2] = <<"B", "/", "A">>

\* what a draw may return: the '' sentinel on an empty pool, a pool uid that
\* is not excluded, or any pool uid when all are excluded
ExpectedUids(alts, made, kept) ==
  IF alts = <<>> THEN { <<>> }
  ELSE IF Eligible(alts, made, kept) # {} THEN Eligible(alts, made, kept)
  ELSE PoolUids(alts)

\* C4 as claimed: when the shell always submits the displayed pair, the
\* replacement returned by Submit is never an entity the kept entity has
\* already been compared with in this series.
C4_NeverRepaired ==
  (submissions > 0 /\ followsDisplay /\ sampled)
    => ret.uid \notin Partners(comparisonsMade, KeptSide(submitted, ret))

\* C4 as amended: when the shell always submits the displayed pair and at
\* least one pool entity is neither the kept entity nor one of its partners,
\* the replacement returned by Submit is never an entity the kept entity has
\* already been compared with; otherwise the draw falls back to the whole
\* pool and may return such an entity.
C4_NeverRepairedUnlessFallback ==
  [][(/\ SubmitStep
      /\ followsDisplay'
      /\ sampled'
      /\ Eligible(alternatives, comparisonsMade',
                  KeptSide(submitted', ret')) # {})
       => ret'.uid \notin
            Partners(comparisonsMade', KeptSide(submitted', ret'))]_vars

\* the third displayed pair was answered by an entity new to the kept one,
\* drawn from a pool that still held one
C4_Witness ==
  /\ submissions = 3
  /\ followsDisplay
  /\ sampled
  /\ Eligible(alternatives, comparisonsMade, KeptSide(submitted, ret)) # {}
  /\ ret.uid \in PoolUids(alternatives)
  /\ ret.uid \notin Partners(comparisonsMade, KeptSide(submitted, ret))

\* C5: the controller never calls the sampler with an empty pool, so the
\* empty-pool error is never raised: a Submit made while the pool is empty
\* draws nothing and returns the '' sentinel, and a Submit that draws has a
\* non-empty pool.
C5_NeverSamplesEmptyPool ==
  /\ [](~raised)
  /\ [][SubmitStep =>
          /\ alternatives = <<>> => (~sampled' /\ Len(ret'.uid) = 0)
          /\ sampled' => Len(alternatives) > 0]_vars

\* two submissions on an empty pool while a fetch is still pending
C5_Witness ==
  /\ submissions >= 2
  /\ alternatives = <<>>
  /\ pending # {}
  /\ ~sampled
  /\ ret.uid = <<>>
  /\ ~raised

\* C6: the refreshLeft returned by Submit is the value held before the
\* toggle, the one that chose keptUid: it is the negation of the stored value
\* after the call, and the side it names is the side opposite to the kept
\* entity (the entity on the other side is the one whose partners and self
\* are excluded from the draw, and it stays displayed).
C6_ReturnsSideBeforeToggle ==
  [][SubmitStep =>
       /\ ret'.refreshLeft = refreshLeft
       /\ ret'.refreshLeft = ~refreshLeft'
       /\ KeptSide(submitted', ret') =
            (IF refreshLeft THEN submitted'[2] ELSE submitted'[1])
       /\ ret'.uid \in ExpectedUids(alternatives, comparisonsMade',
                                    KeptSide(submitted', ret'))
       /\ KeptSide(shown', ret') = KeptSide(submitted', ret')]_vars

\* a submission returned refreshLeft = true with a replacement for the left
\* side, the right entity kept
C6_Witness ==
  /\ submissions = 2
  /\ ret.refreshLeft
  /\ ~refreshLeft
  /\ sampled
  /\ shown[1] = ret.uid
  /\ shown[2] = submitted[2]
  /\ shown[1] # submitted[1]

\* C7: a Submit processed when step = length is not an error: it leaves step
\* unchanged, but still appends the pair to comparisonsMade, still toggles
\* refreshLeft, and still computes and returns a replacement as any other
\* Submit does.
C7_OverrunTolerated ==
  [][(SubmitStep /\ step = length) =>
       /\ step' = step
       /\ ~raised'
       /\ Len(comparisonsMade') = Len(comparisonsMade) + 1
       /\ IsKeyOf(comparisonsMade'[Len(comparisonsMade')],
                  submitted'[1], submitted'[2])
       /\ refreshLeft' = ~refreshLeft
       /\ sampled' = (alternatives # <<>>)
       /\ ret'.uid \in ExpectedUids(alternatives, comparisonsMade',
                                    KeptSide(submitted', ret'))]_vars

\* an overrun submission drew a replacement from the pool
C7_Witness ==
  /\ ManagedSeries(length)
  /\ submissions = length + 1
  /\ step = length
  /\ Len(comparisonsMade) = length + 1
  /\ sampled
  /\ ret.uid \in PoolUids(alternatives)

\* C8 as claimed: once the pool is non-empty, nothing changes its contents:
\* no Submit, CloseDialog, later fetch completion or change of the
\* getAlternatives collaborator.
C8_PoolNeverReplaced ==
  [][alternatives # <<>> => alternatives' = alternatives]_vars

\* C8 as amended: once the pool is non-empty it never becomes empty again,
\* and no Submit, CloseDialog or change of getAlternatives changes it; it
\* is replaced only when a fetch completes with a non-empty result while the
\* component is mounted.
C8_PoolReplacedOnlyByFetch ==
  [][alternatives # <<>> =>
       /\ alternatives' # <<>>
       /\ alternatives' # alternatives =>
            /\ mounted
            /\ \E f \in pending : pending' = pending \ {f} /\ poolFrom' = f
            /\ UNCHANGED << step, dialogOpen, refreshLeft, comparisonsMade,
                            submissions, getAlternatives >>]_vars

\* a pool that outlived a draw, a closed dialog, a second getAlternatives and
\* the completion of both fetches
C8_Witness ==
  /\ alternatives # <<>>
  /\ sampled
  /\ ~dialogOpen
  /\ fetches = 2
  /\ pending = {}

\* C9: a stale resolution of the alternatives fetch (one that completes after
\* the component has unmounted, or after a newer fetch has been started) is
\* ignored: it does not write into the controller's state.
C9_StaleResolutionIgnored ==
  [][\A f \in pending \ pending' :
       (~mounted \/ f < fetches) =>
         (alternatives' = alternatives /\ poolFrom' = poolFrom)]_vars

\* C10: while no fetch has delivered a non-empty result (every fetch so far
\* rejected, resolved to an empty sequence, is absent or still pending) the
\* pool stays empty, and the series proceeds on the empty pool: each Submit
\* advances step while step < length, records the pair, toggles refreshLeft
\* and returns the '' uid, without error.
C10_EmptyPoolSeriesProceeds ==
  /\ [](poolFrom = 0 => alternatives = <<>>)
  /\ [](~raised)
  /\ [][(SubmitStep /\ alternatives = <<>>) =>
          /\ step' = (IF step < length THEN step + 1 ELSE step)
          /\ Len(comparisonsMade') = Len(comparisonsMade) + 1
          /\ refreshLeft' = ~refreshLeft
          /\ Len(ret'.uid) = 0
          /\ alternatives' = <<>>]_vars

\* a series run to its end on an empty pool after its only fetch was settled
\* without a result
C10_Witness ==
  /\ ManagedSeries(length)
  /\ fetches = 1
  /\ pending = {}
  /\ poolFrom = 0
  /\ alternatives = <<>>
  /\ step = length
  /\ submissions = length
  /\ ret.uid = <<>>

\* C11: CloseDialog sets dialogOpen to false and leaves step,
\* comparisonsMade, refreshLeft and the alternatives pool unchanged; it is
\* idempotent (called with dialogOpen already false it leaves it false), and
\* it is accepted whenever the dialog box is rendered, with no condition on
\* step, step = length included.
C11_CloseDialogOnlyCloses ==
  /\ (mounted /\ ManagedSeries(length) /\ DialogConfigured(dialogs, step))
       => ENABLED closeDialog
  /\ ~ENABLED (/\ closeDialog
               /\ ~(/\ dialogOpen' = FALSE
                    /\ UNCHANGED << step, comparisonsMade, refreshLeft,
                                    alternatives >>))

\* the dialog of the last step was closed, and closeDialog can be called
\* again on the closed dialog
C11_Witness ==
  /\ ManagedSeries(length)
  /\ step = length
  /\ submissions = length
  /\ DialogConfigured(dialogs, step)
  /\ ~dialogOpen
  /\ ENABLED closeDialog

\* C12: a Submit sets dialogOpen to true when a dialog is configured for
\* newStep = step + 1 and otherwise leaves dialogOpen unchanged; so after
\* CloseDialog a Submit that moves to a step with no dialog leaves it false.
C12_SubmitOpensConfiguredDialog ==
  [][SubmitStep =>
       dialogOpen' = (IF dialogs.defined /\ (step + 1) \in dialogs.keys
                      THEN TRUE ELSE dialogOpen)]_vars

\* the dialog of step 1 was opened and closed, and the submission to step 2,
\* which has no dialog, left it closed
C12_Witness ==
  /\ dialogs.defined
  /\ 1 \in dialogs.keys
  /\ 2 \notin dialogs.keys
  /\ step = 2
  /\ submissions = 2
  /\ ~dialogOpen

\* the dialog box is rendered and open
DialogShown ==
  /\ length >= MIN_LENGTH
  /\ dialogs.defined
  /\ step \in dialogs.keys
  /\ dialogOpen

\* C13 as claimed: when a series starts, step = 0, refreshLeft = false,
\* comparisonsMade is empty, and dialogOpen is true exactly when a dialog is
\* configured for step 0.
C13_StartsOpenIffConfigured ==
  /\ step = 0
  /\ refreshLeft = FALSE
  /\ comparisonsMade = <<>>
  /\ dialogOpen = (dialogs.defined /\ 0 \in dialogs.keys)
  /\ [][submissions' = 0 =>
          (step' = 0 /\ refreshLeft' = FALSE /\ comparisonsMade' = <<>>)]_vars

\* C13 as amended: when a series starts, step = 0, refreshLeft = false,
\* comparisonsMade is empty and dialogOpen is true whether or not a dialog is
\* configured for step 0; the dialog box is shown exactly when a dialog is
\* configured for step 0 and length >= MIN_LENGTH. These values hold until
\* the first Submit, but for dialogOpen, which CloseDialog sets to false.
C13_StartsOpen ==
  /\ step = 0
  /\ refreshLeft = FALSE
  /\ comparisonsMade = <<>>
  /\ dialogOpen = TRUE
  /\ DialogShown =
       (length >= MIN_LENGTH /\ dialogs.defined /\ 0 \in dialogs.keys)
  /\ [][submissions' = 0 =>
          /\ step' = 0 /\ refreshLeft' = FALSE /\ comparisonsMade' = <<>>
          /\ dialogOpen' # dialogOpen => ~DialogShown']_vars

\* a managed series at its start, no dialog configured for step 0 and
\* dialogOpen true
C13_Witness ==
  /\ ManagedSeries(length)
  /\ submissions = 0
  /\ step = 0
  /\ ~(dialogs.defined /\ 0 \in dialogs.keys)
  /\ dialogOpen
  /\ ~DialogShown

\* C14: when length < MIN_LENGTH the Comparison is not given the submission
\* handler: no Submit is ever processed, no dialog is shown, nothing is
\* drawn from the pool, and step, refreshLeft and comparisonsMade keep their
\* initial values forever.
C14_ShortSeriesUnmanaged ==
  length < MIN_LENGTH =>
    /\ submissions = 0
    /\ step = 0
    /\ refreshLeft = FALSE
    /\ comparisonsMade = <<>>
    /\ ~sampled
    /\ ~ENABLED closeDialog
    /\ ~ENABLED Submit

\* a series of length 1 with a dialog configured for step 0, whose pool was
\* fetched
C14_Witness ==
  /\ length = 1
  /\ mounted
  /\ dialogs.defined
  /\ 0 \in dialogs.keys
  /\ alternatives # <<>>
  /\ pending = {}
  /\ submissions = 0

\* the entity afterSubmitCallback keeps: the right one when the left side is
\* to be refreshed, the left one otherwise, read before the toggle
KeptOfStep == IF refreshLeft THEN submitted'[2] ELSE submitted'[1]

\* C15: for every Submit with a non-empty pool in which at least one pool
\* entity lies outside the exclusion set (the partners of keptUid in the
\* history, the pair just submitted included, and keptUid itself), the
\* returned uid is the uid of a pool entity that is neither keptUid nor a
\* partner of keptUid.
C15_ReplacementOutsideExclusion ==
  [][(/\ SubmitStep
      /\ alternatives # <<>>
      /\ Eligible(alternatives, comparisonsMade', KeptOfStep) # {})
       => /\ ret'.uid \in PoolUids(alternatives)
          /\ ret'.uid # KeptOfStep
          /\ ret'.uid \notin Partners(comparisonsMade', KeptOfStep)]_vars

\* a hand-picked pair was answered from a pool of which two entities were
\* excluded
C15_Witness ==
  /\ submissions >= 2
  /\ ~followsDisplay
  /\ sampled
  /\ Len(alternatives) = 3
  /\ Cardinality(Eligible(alternatives, comparisonsMade,
                          KeptSide(submitted, ret))) = 1
  /\ ret.uid \in Eligible(alternatives, comparisonsMade,
                          KeptSide(submitted, ret))

\* C16: when the pool is non-empty but the exclusion set covers every pool
\* entity, Submit does not fail and does not return the '' sentinel: the
\* draw falls back to the whole pool and the returned uid is the uid of some
\* pool entity.
C16_FallbackToWholePool ==
  [][(/\ SubmitStep
      /\ alternatives # <<>>
      /\ Eligible(alternatives, comparisonsMade', KeptOfStep) = {})
       => /\ ~raised'
          /\ sampled'
          /\ Len(ret'.uid) > 0
          /\ ret'.uid \in PoolUids(alternatives)]_vars

\* every pool entity was excluded and the draw returned a partner the kept
\* entity had already faced
C16_Witness ==
  /\ submissions >= 1
  /\ sampled
  /\ ~raised
  /\ Eligible(alternatives, comparisonsMade, KeptSide(submitted, ret)) = {}
  /\ ret.uid \in PoolUids(alternatives)
  /\ ret.uid \in Partners(comparisonsMade, KeptSide(submitted, ret))

\* C17: after n processed submissions step = min(n, length): each Submit
\* with step < length increases step by exactly 1, step = length is reached
\* after exactly `length` submissions, and once reached step never changes.
C17_StepIsMinOfSubmissionsAndLength ==
  /\ [](step = (IF submissions < length THEN submissions ELSE length))
  /\ [][(SubmitStep /\ step < length) => step' = step + 1]_vars
  /\ [][step = length => step' = length]_vars

\* the series finished at its length-th submission and one more submission
\* left step there
C17_Witness ==
  /\ ManagedSeries(length)
  /\ submissions = length + 1
  /\ step = length
  /\ step = Len(comparisonsMade) - 1

UnorderedPair(key) ==
  LET p == CHOOSE q \in AllUids \X AllUids : IsKeyOf(key, q[1], q[2])
  IN {p[1], p[2]}

C20_OpenedDialogIsOfCurrentStep ==
  [][SubmitStep =>
       /\ (~dialogOpen /\ dialogOpen') => DialogConfigured(dialogs, step')
       /\ (step' = step /\ DialogConfigured(dialogs, step) /\ ~dialogOpen)
            => ~dialogOpen']_vars

==========================================================================
